---------------------------- MODULE Spec2Model ----------------------------
(* Model of the route-finding front end: frontend/js/app.js (controller),  *)
(* frontend/js/map.js (Leaflet overlay handling) and frontend/js/api.js    *)
(* (service client).                                                       *)
(*                                                                         *)
(* Conventions.                                                            *)
(*  - A JavaScript string is a sequence of one-character strings.          *)
(*  - A JavaScript number is an integer >= 0; NaN and undefined are the    *)
(*    two negative sentinels NaN and UNDEF.                                *)
(*  - A nullable reference, and an optional member of a JSON body, is a    *)
(*    sequence of length 0 (null, absent) or 1.                            *)
(*  - Distances shown by toFixed(2) are integers counting 0.01 km.         *)
(*  - Opacities are integers counting tenths.                              *)
EXTENDS Integers, Sequences, FiniteSets, Bags

VARIABLES
    initPc,          \* init(): awaiting "health" or "stats", returned "failed" or "done"
    startLatInput,   \* .value of the four coordinate inputs (strings)
    startLonInput,
    endLatInput,
    endLonInput,
    clickMode,       \* app.js clickMode
    btnDisabled,     \* findRouteBtn.disabled
    status,          \* message last given to setStatus
    infoPanel,       \* info panel: shown flag and the four spans
    pending,         \* findRoute invocations suspended at "await getRoute"
    mapLayers,       \* bag of the overlay layers present on the Leaflet map
    routeLayer,      \* map.js module handles
    allRouteLayers,
    startMarker,
    endMarker,
    tempMarkers,     \* temporary markers whose removal timer is still armed
    clickParity,     \* history: number of map clicks so far, modulo 2
    events           \* history: number of events the page has handled

vars == <<initPc, startLatInput, startLonInput, endLatInput, endLonInput,
          clickMode, btnDisabled, status, infoPanel, pending, mapLayers,
          routeLayer, allRouteLayers, startMarker, endMarker, tempMarkers,
          clickParity, events>>

inputVars == <<startLatInput, startLonInput, endLatInput, endLonInput>>
overlayVars == <<mapLayers, routeLayer, allRouteLayers, startMarker, endMarker>>

-----------------------------------------------------------------------------
(* Bound of the model: the events (user gestures, timer and network       *)
(* callbacks) of one session.                                              *)

MaxEvents == 6

-----------------------------------------------------------------------------
(* JavaScript values and conversions.                                      *)

NaN == -1
UNDEF == -2

Digits == <<"0", "1", "2", "3", "4", "5", "6", "7", "8", "9">>

IsDigit(c) == \E i \in 1..10 : Digits[i] = c

DigitVal(c) == (CHOOSE i \in 1..10 : Digits[i] = c) - 1

RECURSIVE DigitPrefix(_)
DigitPrefix(s) ==
    IF s = <<>> \/ ~IsDigit(Head(s)) THEN <<>>
    ELSE <<Head(s)>> \o DigitPrefix(Tail(s))

RECURSIVE DecimalValue(_)
DecimalValue(s) ==
    IF s = <<>> THEN 0
    ELSE 10 * DecimalValue(SubSeq(s, 1, Len(s) - 1)) + DigitVal(s[Len(s)])

\* parseFloat: the value of the longest numeric prefix, NaN when there is none.
parseFloat(s) ==
    IF DigitPrefix(s) = <<>> THEN NaN ELSE DecimalValue(DigitPrefix(s))

\* Number(string): the whole string must be numeric; the empty string is 0.
Number(s) ==
    IF s = <<>> THEN 0
    ELSE IF DigitPrefix(s) = s THEN DecimalValue(s)
    ELSE NaN

isNaN(x) == x = NaN \/ x = UNDEF

\* String(number), as done by the assignment of a number to input.value.
RECURSIVE NumberToString(_)
NumberToString(n) ==
    IF n < 10 THEN <<Digits[n + 1]>>
    ELSE NumberToString(n \div 10) \o <<Digits[(n % 10) + 1]>>

\* String.prototype.split("_")
RECURSIVE Split(_)
Split(s) ==
    IF \A i \in 1..Len(s) : s[i] # "_" THEN <<s>>
    ELSE LET k == CHOOSE i \in 1..Len(s) :
                      s[i] = "_" /\ \A j \in 1..(i - 1) : s[j] # "_"
         IN  <<SubSeq(s, 1, k - 1)>> \o Split(SubSeq(s, k + 1, Len(s)))

-----------------------------------------------------------------------------
(* frontend/js/map.js.  The operators work on a record m of the map and    *)
(* the module handles:                                                     *)
(*   layers          bag of the layers present on the Leaflet map          *)
(*   routeLayer, allRouteLayers, startMarker, endMarker   the handles      *)
(* An operator that can throw returns [m |-> state reached, threw |-> ..]. *)

Line(latlngs, weight, opacity) ==
    [kind |-> "line", latlngs |-> latlngs, weight |-> weight, opacity |-> opacity]

Marker(kind, coord) ==
    [kind |-> kind, latlngs |-> <<coord>>, weight |-> 0, opacity |-> 0]

\* layer.addTo(map)
addTo(layers, layer) == layers (+) SetToBag({layer})

\* map.removeLayer(layer): no effect when the layer is not on the map
removeLayer(layers, layer) ==
    IF BagIn(layer, layers) THEN layers (-) SetToBag({layer}) ELSE layers

RECURSIVE removeLayers(_, _)
removeLayers(layers, seq) ==
    IF seq = <<>> THEN layers
    ELSE removeLayers(removeLayer(layers, Head(seq)), Tail(seq))

\* Leaflet's LatLng constructor throws on a NaN or undefined component.
ValidLatLng(c) == ~isNaN(c[1]) /\ ~isNaN(c[2])

ValidLatLngs(latlngs) == \A i \in 1..Len(latlngs) : ValidLatLng(latlngs[i])

clearAllRoutes(m) ==
    [m EXCEPT !.layers = removeLayers(removeLayers(m.layers, m.allRouteLayers),
                                      m.routeLayer),
              !.allRouteLayers = <<>>,
              !.routeLayer = <<>>]

addMarkers(m, startCoord, endCoord) ==
    LET removed == removeLayers(removeLayers(m.layers, m.startMarker), m.endMarker)
        s == Marker("start", startCoord)
        e == Marker("end", endCoord)
    IN  [m EXCEPT !.layers = addTo(addTo(removed, s), e),
                  !.startMarker = <<s>>,
                  !.endMarker = <<e>>]

\* const [lat, lon] = node_id.split("_").map(Number)
DecodeNode(node) ==
    LET parts == Split(node.s)
    IN  <<Number(parts[1]), IF Len(parts) >= 2 THEN Number(parts[2]) ELSE UNDEF>>

DecodePath(path) == [i \in 1..Len(path) |-> DecodeNode(path[i])]

drawRoute(m, path, startCoord, endCoord) ==
    LET cleared == clearAllRoutes(m)
        latlngs == DecodePath(path)
        layer   == Line(latlngs, 5, 7)
        drawn   == [cleared EXCEPT !.layers = addTo(cleared.layers, layer),
                                   !.routeLayer = <<layer>>]
        marked  == addMarkers(drawn, startCoord, endCoord)
    IN  IF \E i \in 1..Len(path) : path[i].t # "string"
          THEN [m |-> cleared, threw |-> TRUE]      \* node_id.split is not a function
        ELSE IF ~ValidLatLngs(latlngs)
          THEN [m |-> cleared, threw |-> TRUE]      \* L.polyline: invalid LatLng
        ELSE IF latlngs = <<>>
          THEN [m |-> marked, threw |-> TRUE]       \* fitBounds: bounds are not valid
        ELSE [m |-> marked, threw |-> FALSE]

\* The forEach body of drawMultiplePaths for entries index..Len(pathsData)
\* (index counts from 1 here, from 0 in the source).
RECURSIVE drawEach(_, _, _)
drawEach(m, pathsData, index) ==
    IF index > Len(pathsData) THEN [m |-> m, threw |-> FALSE]
    ELSE LET pathData == pathsData[index]
             weight   == IF index = 1 THEN 6 ELSE 4
             opacity  == IF index = 1 THEN 9 ELSE 6
         IN  IF pathData.coordinates = <<>>
                  \/ ~ValidLatLngs(pathData.coordinates[1])
               THEN [m |-> m, threw |-> TRUE]       \* L.polyline throws
             ELSE LET layer == Line(pathData.coordinates[1], weight, opacity)
                      added == [m EXCEPT !.layers = addTo(m.layers, layer)]
                  IN  IF pathData.distance_km = UNDEF
                        THEN [m |-> added, threw |-> TRUE]  \* undefined.toFixed
                      ELSE drawEach([added EXCEPT !.allRouteLayers =
                                                    Append(@, layer)],
                                    pathsData, index + 1)

drawMultiplePaths(m, pathsData, startCoord, endCoord) ==
    LET each == drawEach(clearAllRoutes(m), pathsData, 1)
    IN  IF each.threw THEN each
        ELSE [m |-> addMarkers(each.m, startCoord, endCoord), threw |-> FALSE]

clearMap(m) ==
    LET cleared == clearAllRoutes(m)
    IN  [cleared EXCEPT
            !.layers = removeLayers(removeLayers(cleared.layers, cleared.startMarker),
                                    cleared.endMarker),
            !.startMarker = <<>>,
            !.endMarker = <<>>]

\* showTemporaryMarker: the marker put on the map; its timer removes it.
TempMarker(lat, lon) == Marker("temp", <<lat, lon>>)

-----------------------------------------------------------------------------
(* Values the environment supplies: what the user clicks and types, and    *)
(* what the service answers.                                               *)

Algorithms == {"dijkstra", "bfs", "dfs"}

\* Points the user clicks, already rounded by onMapClick (map.js).
ClickPoints == {<<1, 1>>, <<2, 2>>}

\* Texts the user types into a coordinate input: a number followed by a
\* letter (the inputs are empty until something fills them).
TypedTexts == {<<"1", "x">>}

Str(chars) == [t |-> "string", s |-> chars]

NodeA == Str(<<"1", "_", "1">>)
NodeB == Str(<<"2", "_", "2">>)
NodeNoSeparator == Str(<<"1">>)
NodeNotNumeric == Str(<<"x", "_", "1">>)
NodeTwoSeparators == Str(<<"1", "_", "2", "_", "1">>)
NodeNotString == [t |-> "number", s |-> <<>>]

PathAB == <<NodeA, NodeB>>
PathBA == <<NodeB, NodeA>>

\* One entry of all_paths_data.
Entry(coordinates, distance_km) ==
    [coordinates |-> coordinates, distance_km |-> distance_km,
     nodes |-> IF coordinates = <<>> THEN 0 ELSE Len(coordinates[1])]

EntryAB == Entry(<<(<<(<<1, 1>>), (<<2, 2>>)>>)>>, 1500)
EntryBA == Entry(<<(<<(<<2, 2>>), (<<1, 1>>)>>)>>, 2500)
EntryA  == Entry(<<(<<(<<1, 1>>)>>)>>, 3500)
EntryNoDistance == Entry(<<(<<(<<2, 2>>), (<<1, 1>>)>>)>>, UNDEF)
EntryNoCoordinates == Entry(<<>>, 2500)

\* A parsed JSON body.  Absent members are <<>> (arrays) or UNDEF (numbers).
Body(path, paths, all_paths_data, distance_km, distance) ==
    [path |-> path, paths |-> paths, all_paths_data |-> all_paths_data,
     distance_km |-> distance_km, distance |-> distance]

Bodies ==
    { Body(<<>>, <<>>, <<>>, UNDEF, UNDEF),                      \* {}
      Body(<<(<<>>)>>, <<(<<>>)>>, <<>>, UNDEF, UNDEF),          \* path: [], paths: []
      Body(<<PathAB>>, <<>>, <<>>, UNDEF, 1000),
      Body(<<PathBA>>, <<>>, <<>>, 1500, UNDEF),
      Body(<<(<<NodeA, NodeNoSeparator>>)>>, <<>>, <<>>, UNDEF, 1000),
      Body(<<(<<NodeNotNumeric>>)>>, <<>>, <<>>, UNDEF, 1000),
      Body(<<(<<NodeNotString>>)>>, <<>>, <<>>, UNDEF, 1000),
      Body(<<(<<NodeTwoSeparators>>)>>, <<>>, <<>>, UNDEF, 1000),
      Body(<<>>, <<(<<PathAB>>)>>, <<>>, 1500, UNDEF),
      Body(<<>>, <<(<<PathAB>>)>>, <<(<<EntryAB>>)>>, 1500, UNDEF),
      Body(<<>>, <<(<<PathAB, PathBA>>)>>, <<>>, 1500, UNDEF),
      Body(<<>>, <<(<<PathAB, PathBA>>)>>, <<(<<EntryAB, EntryBA>>)>>, 1500, UNDEF),
      Body(<<>>, <<(<<PathAB, PathBA, PathAB>>)>>,                \* paths and
           <<(<<EntryAB, EntryBA, EntryA>>)>>, UNDEF, UNDEF),     \* all_paths_data only
      Body(<<>>, <<(<<PathAB, PathBA>>)>>, <<(<<EntryAB, EntryNoDistance>>)>>,
           1500, UNDEF),
      Body(<<>>, <<(<<PathAB, PathBA>>)>>, <<(<<EntryAB, EntryNoCoordinates>>)>>,
           1500, UNDEF),
      Body(<<>>, <<(<<(<<>>)>>)>>, <<>>, 1500, UNDEF),           \* paths: [[]]
      Body(<<>>, <<>>, <<(<<EntryAB, EntryBA>>)>>, 1500, UNDEF) }

\* What fetch and response.json() deliver to getRoute.
Response(kind, body) == [kind |-> kind, body |-> body]

Responses ==
    { Response(k, <<>>) : k \in {"unreachable", "bad_status", "bad_json", "json"} }
        \cup { Response("json", <<b>>) : b \in Bodies }

-----------------------------------------------------------------------------
(* frontend/js/api.js                                                      *)

\* getRoute answering null on a failure, as getGraphStats does.
getRouteNullOnFailure(response) ==
    IF response.kind # "json" \/ response.body = <<>>
      THEN [threw |-> FALSE, data |-> <<>>]
      ELSE [threw |-> FALSE, data |-> response.body]

\* getRoute, from the moment fetch settles: it rethrows a transport failure,
\* throws on a non-success status and on a body that is not JSON, and throws
\* when it sets computeTime on a body that is null.
getRoute(response) ==
    IF response.kind # "json" \/ response.body = <<>>
      THEN [threw |-> TRUE, data |-> <<>>]
      ELSE [threw |-> FALSE, data |-> response.body]

-----------------------------------------------------------------------------
(* frontend/js/app.js                                                      *)

Status(type, msg, n) == [type |-> type, msg |-> msg, n |-> n]

\* (x).toFixed(2) of a length given in metres (0.001 km): hundredths of a km
toFixed2(thousandths) == (thousandths + 5) \div 10

algoNames(algorithm) ==
    CASE algorithm = "dijkstra" -> "Dijkstra"
      [] algorithm = "bfs" -> "BFS"
      [] algorithm = "dfs" -> "DFS"
      [] OTHER -> algorithm

updateInfoPanel(data, algorithm) ==
    [show |-> TRUE,
     distance |-> IF data.distance_km # UNDEF THEN toFixed2(data.distance_km)
                  ELSE IF data.distance # UNDEF THEN toFixed2(data.distance)
                  ELSE UNDEF,
     nodes |-> IF data.path # <<>> THEN Len(data.path[1])
               ELSE IF data.paths # <<>> /\ Len(data.paths[1]) > 0
                    THEN Len(data.paths[1][1])
               ELSE 0,
     algo |-> algoNames(algorithm)]

Request(algorithm, lat1, lon1, lat2, lon2) ==
    [algorithm |-> algorithm, lat1 |-> lat1, lon1 |-> lon1,
     lat2 |-> lat2, lon2 |-> lon2]

\* The dfs branch picks the multi-path rendering.
IsMultiPath(data) ==
    data.all_paths_data # <<>> /\ Len(data.all_paths_data[1]) > 1

\* The "no route" tests of the two branches.
NoPaths(data) == data.paths = <<>> \/ Len(data.paths[1]) = 0

\* The bfs/dijkstra test without its length check.
NoPathAbsentOnly(data) == data.path = <<>>

NoPath(data) == data.path = <<>> \/ Len(data.path[1]) = 0

\* findRoute from "await getRoute" to its end, finally block excepted:
\* the overlays, the info panel and the status it leaves.
findRouteResume(m, panel, req, response) ==
    LET got       == getRoute(response)
        data      == got.data[1]
        startC    == <<req.lat1, req.lon1>>
        endC      == <<req.lat2, req.lon2>>
        caught    == Status("error", "caught", 0)
        notFound  == Status("error", "no_route", 0)
        multi     == drawMultiplePaths(m, data.all_paths_data[1], startC, endC)
        firstPath == drawRoute(m, data.paths[1][1], startC, endC)
        single    == drawRoute(m, data.path[1], startC, endC)
    IN  IF got.threw
          THEN [m |-> m, panel |-> panel, status |-> caught]
        ELSE IF got.data = <<>>
          THEN [m |-> m, panel |-> panel,
                status |-> Status("error", "no_response", 0)]
        ELSE IF req.algorithm = "dfs"
          THEN IF NoPaths(data)
                 THEN [m |-> m, panel |-> panel, status |-> notFound]
               ELSE IF IsMultiPath(data)
                 THEN IF multi.threw
                        THEN [m |-> multi.m, panel |-> panel, status |-> caught]
                        ELSE [m |-> multi.m,
                              panel |-> updateInfoPanel(data, req.algorithm),
                              status |-> Status("success", "dfs_multi",
                                                Len(data.all_paths_data[1]))]
               ELSE IF firstPath.threw
                 THEN [m |-> firstPath.m, panel |-> panel, status |-> caught]
                 ELSE [m |-> firstPath.m,
                       panel |-> updateInfoPanel(data, req.algorithm),
                       status |-> Status("success", "dfs_single", 1)]
        ELSE IF NoPath(data)
          THEN [m |-> m, panel |-> panel, status |-> notFound]
        ELSE IF single.threw
          THEN [m |-> single.m, panel |-> panel, status |-> caught]
          ELSE [m |-> single.m,
                panel |-> updateInfoPanel(data, req.algorithm),
                status |-> Status("success",
                                  IF req.algorithm = "bfs" THEN "found_bfs"
                                  ELSE "found_dijkstra", 0)]

-----------------------------------------------------------------------------
(* State of the page.                                                      *)

MapState ==
    [layers |-> mapLayers, routeLayer |-> routeLayer,
     allRouteLayers |-> allRouteLayers, startMarker |-> startMarker,
     endMarker |-> endMarker]

SetMapState(m) ==
    /\ mapLayers' = m.layers
    /\ routeLayer' = m.routeLayer
    /\ allRouteLayers' = m.allRouteLayers
    /\ startMarker' = m.startMarker
    /\ endMarker' = m.endMarker

Init ==
    /\ initPc = "health"
    /\ startLatInput = <<>>
    /\ startLonInput = <<>>
    /\ endLatInput = <<>>
    /\ endLonInput = <<>>
    /\ clickMode = "start"
    /\ btnDisabled = FALSE
    /\ status = Status("info", "initial", 0)
    /\ infoPanel = [show |-> FALSE, distance |-> UNDEF, nodes |-> 0, algo |-> ""]
    /\ pending = <<>>
    /\ mapLayers = EmptyBag
    /\ routeLayer = <<>>
    /\ allRouteLayers = <<>>
    /\ startMarker = <<>>
    /\ endMarker = <<>>
    /\ tempMarkers = <<>>
    /\ clickParity = 0
    /\ events = 0

\* One more event is handled.
Tick == events < MaxEvents /\ events' = events + 1

\* findRoute up to "await getRoute", with the algorithm the select shows.
findRoute(algorithm) ==
    LET lat1 == parseFloat(startLatInput)
        lon1 == parseFloat(startLonInput)
        lat2 == parseFloat(endLatInput)
        lon2 == parseFloat(endLonInput)
    IN  /\ IF isNaN(lat1) \/ isNaN(lon1) \/ isNaN(lat2) \/ isNaN(lon2)
             THEN /\ status' = Status("error", "bad_coordinates", 0)
                  /\ UNCHANGED <<btnDisabled, pending>>
             ELSE /\ btnDisabled' = TRUE                          \* showLoading
                  /\ status' = Status("loading", "loading", 0)
                  /\ pending' = Append(pending,
                                       Request(algorithm, lat1, lon1, lat2, lon2))
        /\ UNCHANGED <<initPc, inputVars, clickMode, infoPanel, overlayVars,
                       tempMarkers, clickParity>>

\* The user presses the search button: a disabled button fires no click.
ClickFindRoute ==
    /\ Tick
    /\ ~btnDisabled
    /\ \E algorithm \in Algorithms : findRoute(algorithm)

\* The user presses Enter anywhere in the document.
PressEnter == Tick /\ \E algorithm \in Algorithms : findRoute(algorithm)

\* The resumed findRoute reading the coordinate inputs again for its draw
\* calls.
SettleReadsInputs(i, response) ==
    LET now  == Request(pending[i].algorithm,
                        parseFloat(startLatInput), parseFloat(startLonInput),
                        parseFloat(endLatInput), parseFloat(endLonInput))
        done == findRouteResume(MapState, infoPanel, now, response)
    IN  /\ Tick
        /\ pending' = SubSeq(pending, 1, i - 1) \o SubSeq(pending, i + 1, Len(pending))
        /\ status' = done.status
        /\ infoPanel' = done.panel
        /\ SetMapState(done.m)
        /\ btnDisabled' = FALSE
        /\ UNCHANGED <<initPc, inputVars, clickMode, tempMarkers, clickParity>>

\* The response to the i-th outstanding request arrives and findRoute runs
\* to its end.
Settle(i, response) ==
    LET done == findRouteResume(MapState, infoPanel, pending[i], response)
    IN  /\ Tick
        /\ pending' = SubSeq(pending, 1, i - 1) \o SubSeq(pending, i + 1, Len(pending))
        /\ status' = done.status
        /\ infoPanel' = done.panel
        /\ SetMapState(done.m)
        /\ btnDisabled' = FALSE                                   \* hideLoading
        /\ UNCHANGED <<initPc, inputVars, clickMode, tempMarkers, clickParity>>

RouteSettles ==
    \E i \in 1..Len(pending) : \E response \in Responses : Settle(i, response)

\* The click callback with the end branch leaving clickMode as it is.
MapClickKeepsMode(lat, lon) ==
    /\ Tick
    /\ IF clickMode = "start"
         THEN /\ startLatInput' = NumberToString(lat)
              /\ startLonInput' = NumberToString(lon)
              /\ status' = Status("success", "start_point", 0)
              /\ clickMode' = "end"
              /\ UNCHANGED <<endLatInput, endLonInput>>
         ELSE /\ endLatInput' = NumberToString(lat)
              /\ endLonInput' = NumberToString(lon)
              /\ status' = Status("success", "end_point", 0)
              /\ clickMode' = clickMode
              /\ UNCHANGED <<startLatInput, startLonInput>>
    /\ mapLayers' = addTo(mapLayers, TempMarker(lat, lon))
    /\ tempMarkers' = Append(tempMarkers, TempMarker(lat, lon))
    /\ clickParity' = 1 - clickParity
    /\ UNCHANGED <<initPc, btnDisabled, infoPanel, pending, routeLayer,
                   allRouteLayers, startMarker, endMarker>>

\* The callback given to onMapClick, with showTemporaryMarker.
MapClick(lat, lon) ==
    /\ Tick
    /\ IF clickMode = "start"
         THEN /\ startLatInput' = NumberToString(lat)
              /\ startLonInput' = NumberToString(lon)
              /\ status' = Status("success", "start_point", 0)
              /\ clickMode' = "end"
              /\ UNCHANGED <<endLatInput, endLonInput>>
         ELSE /\ endLatInput' = NumberToString(lat)
              /\ endLonInput' = NumberToString(lon)
              /\ status' = Status("success", "end_point", 0)
              /\ clickMode' = "start"
              /\ UNCHANGED <<startLatInput, startLonInput>>
    /\ mapLayers' = addTo(mapLayers, TempMarker(lat, lon))
    /\ tempMarkers' = Append(tempMarkers, TempMarker(lat, lon))
    /\ clickParity' = 1 - clickParity
    /\ UNCHANGED <<initPc, btnDisabled, infoPanel, pending, routeLayer,
                   allRouteLayers, startMarker, endMarker>>

UserClicksMap == \E p \in ClickPoints : MapClick(p[1], p[2])

\* The 3000 ms timer of the oldest temporary marker fires.
TempMarkerExpires ==
    /\ Tick
    /\ tempMarkers # <<>>
    /\ mapLayers' = removeLayer(mapLayers, Head(tempMarkers))
    /\ tempMarkers' = Tail(tempMarkers)
    /\ UNCHANGED <<initPc, inputVars, clickMode, btnDisabled, status, infoPanel,
                   pending, routeLayer, allRouteLayers, startMarker, endMarker,
                   clickParity>>

\* The clear button also returning the selection to the start point.
clearAllResetsMode ==
    /\ Tick
    /\ SetMapState(clearMap(MapState))
    /\ infoPanel' = [infoPanel EXCEPT !.show = FALSE]
    /\ status' = Status("info", "cleared", 0)
    /\ clickMode' = "start"
    /\ UNCHANGED <<initPc, inputVars, btnDisabled, pending, tempMarkers,
                   clickParity>>

\* The user presses the clear button.
clearAll ==
    /\ Tick
    /\ SetMapState(clearMap(MapState))
    /\ infoPanel' = [infoPanel EXCEPT !.show = FALSE]
    /\ status' = Status("info", "cleared", 0)
    /\ UNCHANGED <<initPc, inputVars, clickMode, btnDisabled, pending,
                   tempMarkers, clickParity>>

\* The user types into one of the coordinate inputs.
TypeInput(field, text) ==
    /\ Tick
    /\ startLatInput' = IF field = "start_lat" THEN text ELSE startLatInput
    /\ startLonInput' = IF field = "start_lon" THEN text ELSE startLonInput
    /\ endLatInput' = IF field = "end_lat" THEN text ELSE endLatInput
    /\ endLonInput' = IF field = "end_lon" THEN text ELSE endLonInput
    /\ UNCHANGED <<initPc, clickMode, btnDisabled, status, infoPanel, pending,
                   overlayVars, tempMarkers, clickParity>>

UserTypes ==
    \E field \in {"start_lat", "start_lon", "end_lat", "end_lon"} :
        \E text \in TypedTexts : TypeInput(field, text)

\* init: checkHealth resolves.
HealthChecked(isHealthy) ==
    /\ Tick
    /\ initPc = "health"
    /\ IF ~isHealthy
         THEN /\ status' = Status("error", "no_backend", 0)
              /\ btnDisabled' = TRUE
              /\ initPc' = "failed"
         ELSE /\ initPc' = "stats"
              /\ UNCHANGED <<status, btnDisabled>>
    /\ UNCHANGED <<inputVars, clickMode, infoPanel, pending, overlayVars,
                   tempMarkers, clickParity>>

InitHealth == \E isHealthy \in BOOLEAN : HealthChecked(isHealthy)

\* Bounding boxes [min_lat, max_lat, min_lon, max_lon] the statistics carry;
\* <<>> is a reply without one, or no reply.
Bboxes == {<<>>, <<0, 2, 0, 2>>}

\* init: getGraphStats resolves.  A hundredth of a degree is 1.
StatsLoaded(bbox) ==
    /\ Tick
    /\ initPc = "stats"
    /\ IF bbox # <<>>
         THEN LET center_lat == (bbox[1] + bbox[2]) \div 2
                  center_lon == (bbox[3] + bbox[4]) \div 2
              IN  /\ startLatInput' = NumberToString(center_lat)
                  /\ startLonInput' = NumberToString(center_lon)
                  /\ endLatInput' = NumberToString(center_lat + 1)
                  /\ endLonInput' = NumberToString(center_lon + 1)
         ELSE UNCHANGED inputVars
    /\ status' = Status("info", "ready", 0)
    /\ initPc' = "done"
    /\ UNCHANGED <<clickMode, btnDisabled, infoPanel, pending, overlayVars,
                   tempMarkers, clickParity>>

InitStats == \E bbox \in Bboxes : StatsLoaded(bbox)

Next ==
    \/ ClickFindRoute
    \/ PressEnter
    \/ RouteSettles
    \/ UserClicksMap
    \/ TempMarkerExpires
    \/ clearAll
    \/ UserTypes
    \/ InitHealth
    \/ InitStats

Spec == Init /\ [][Next]_vars

-----------------------------------------------------------------------------
(* Properties.                                                             *)

RECURSIVE CountLayers(_, _, _)
CountLayers(layers, elems, kinds) ==
    IF elems = {} THEN 0
    ELSE LET e == CHOOSE x \in elems : TRUE
         IN  (IF e.kind \in kinds THEN CopiesIn(e, layers) ELSE 0)
                 + CountLayers(layers, elems \ {e}, kinds)

\* Number of layers of the given kinds present on the map.
OnMap(layers, kinds) == CountLayers(layers, BagToSet(layers), kinds)

\* The layers the module handles refer to.
Handles == routeLayer \o allRouteLayers \o startMarker \o endMarker

\* A step in which a suspended findRoute resumes and ends.
IsSettle == Len(pending') < Len(pending)

\* A step in which findRoute calls getRoute.
IsRequest == Len(pending') > Len(pending)

\* C1: at most one route request is in flight at any time: getRoute is never
\* called while an earlier call has not settled.
C1_OneRequestInFlight == Len(pending) <= 1

\* C2: every route line and every start/end marker present on the map is
\* held in a module handle (routeLayer, allRouteLayers, startMarker,
\* endMarker), and every handle's layer is on the map: nothing drawn earlier
\* is left on the map untracked.
C2_OverlaysTracked ==
    /\ OnMap(mapLayers, {"line"}) = Len(routeLayer) + Len(allRouteLayers)
    /\ OnMap(mapLayers, {"start", "end"}) = Len(startMarker) + Len(endMarker)
    /\ \A i \in 1..Len(Handles) : BagIn(Handles[i], mapLayers)

\* C3: when a route request ends in a service error (the catch block reports
\* it), the route lines and markers on the map are those displayed before.
C3_ErrorKeepsOverlays ==
    [][(IsSettle /\ status'.msg = "caught") => UNCHANGED overlayVars]_vars

\* C4: once the startup health check has returned unhealthy, the search
\* button is disabled in every later state.
C4_UnhealthyStaysDisabled == initPc = "failed" => btnDisabled

\* C5: clickMode is 'start' before an odd-numbered click and 'end' before an
\* even-numbered one, whatever else happens in between; the n-th click writes
\* the clicked point to the start inputs when n is odd and to the end inputs
\* when n is even, and leaves the other pair alone; no other step changes
\* clickMode.
C5_SelectionAlternates ==
    /\ [](clickMode = IF clickParity = 0 THEN "start" ELSE "end")
    /\ [][clickParity' # clickParity =>
            \E p \in ClickPoints :
                IF clickParity = 0
                  THEN /\ startLatInput' = NumberToString(p[1])
                       /\ startLonInput' = NumberToString(p[2])
                       /\ UNCHANGED <<endLatInput, endLonInput>>
                  ELSE /\ endLatInput' = NumberToString(p[1])
                       /\ endLonInput' = NumberToString(p[2])
                       /\ UNCHANGED <<startLatInput, startLonInput>>]_vars
    /\ [][clickParity' = clickParity => clickMode' = clickMode]_vars

\* Three clicks at least: the second wrote the end inputs, the third the
\* start inputs again.
C5_Witness ==
    /\ clickParity = 1
    /\ clickMode = "end"
    /\ endLatInput = NumberToString(1)
    /\ startLatInput = NumberToString(2)

\* The coordinates a request was issued with.
StartOf(req) == <<req.lat1, req.lon1>>
EndOf(req) == <<req.lat2, req.lon2>>

\* C6: for a successful DFS response, the multi-path rendering (status naming
\* the count) is chosen exactly when the result carries more than one
\* candidate path, and a response with exactly one path is drawn by
\* drawRoute as one line of weight 5 and opacity 0.7.
C6_MultiPathWhenSeveralPaths ==
    [][\A i \in 1..Len(pending) : \A r \in Responses :
          (/\ IsSettle
           /\ status'.type = "success"
           /\ pending[i].algorithm = "dfs"
           /\ Settle(i, r))
            => LET paths == r.body[1].paths[1]
               IN  /\ status'.msg = "dfs_multi" <=> Len(paths) > 1
                   /\ Len(paths) = 1 =>
                        /\ routeLayer' = <<Line(DecodePath(paths[1]), 5, 7)>>
                        /\ allRouteLayers' = <<>>]_vars

\* C7: after a successful dijkstra or bfs response with a non-empty path the
\* map holds exactly one route line, through the decoded path in order, and
\* exactly two start/end markers, at the request's start and end.
C7_OneLineTwoMarkers ==
    [][\A i \in 1..Len(pending) : \A r \in Responses :
          (/\ IsSettle
           /\ status'.type = "success"
           /\ pending[i].algorithm \in {"dijkstra", "bfs"}
           /\ Settle(i, r))
            => LET line == Line(DecodePath(r.body[1].path[1]), 5, 7)
               IN  /\ routeLayer' = <<line>>
                   /\ allRouteLayers' = <<>>
                   /\ BagIn(line, mapLayers')
                   /\ OnMap(mapLayers', {"line"}) = 1
                   /\ startMarker' = <<Marker("start", StartOf(pending[i]))>>
                   /\ endMarker' = <<Marker("end", EndOf(pending[i]))>>
                   /\ OnMap(mapLayers', {"start", "end"}) = 2]_vars

\* C8: after drawMultiplePaths has drawn a DFS response whose all_paths_data
\* has k > 1 entries, exactly k route lines are on the map, and the line of
\* entry 0 has strictly greater weight and opacity than each of the others.
C8_MultiPathLines ==
    [][\A i \in 1..Len(pending) : \A r \in Responses :
          (IsSettle /\ status'.msg = "dfs_multi" /\ Settle(i, r))
            => LET k == Len(r.body[1].all_paths_data[1])
               IN  /\ k > 1
                   /\ Len(allRouteLayers') = k
                   /\ OnMap(mapLayers', {"line"}) = k
                   /\ \A j \in 2..k :
                        /\ allRouteLayers'[1].weight > allRouteLayers'[j].weight
                        /\ allRouteLayers'[1].opacity > allRouteLayers'[j].opacity]_vars

\* The service answered with a body that holds no route for the algorithm:
\* path (bfs, dijkstra) or paths (dfs) is absent or has no element.
EmptyResult(req, r) ==
    /\ r.kind = "json"
    /\ r.body # <<>>
    /\ IF req.algorithm = "dfs"
         THEN r.body[1].paths = <<>> \/ r.body[1].paths[1] = <<>>
         ELSE r.body[1].path = <<>> \/ r.body[1].path[1] = <<>>

\* C9: when the service succeeds with an empty result, findRoute reports "no
\* route found", and neither the call of getRoute nor the handling of the
\* answer changes the route lines, the markers or the results summary.
C9_EmptyResultKeepsRender ==
    /\ [][IsSettle =>
            \A i \in 1..Len(pending) : \A r \in Responses :
                (EmptyResult(pending[i], r) /\ Settle(i, r))
                  => /\ status' = Status("error", "no_route", 0)
                     /\ UNCHANGED <<overlayVars, infoPanel>>]_vars
    /\ [][IsRequest => UNCHANGED <<overlayVars, infoPanel>>]_vars

\* "No route found" is shown over a route drawn before, its summary visible.
C9_Witness ==
    /\ status.msg = "no_route"
    /\ routeLayer # <<>>
    /\ infoPanel.show

\* A text that is a number from its first to its last character.
WellFormedNumber(text) ==
    text # <<>> /\ \A i \in 1..Len(text) : IsDigit(text[i])

\* C10: when a search is triggered and one of the four coordinate inputs is
\* not a well-formed number, findRoute reports a validation failure, issues
\* no request and changes neither the selection state, the button, the
\* overlays nor the results summary.
C10_BadInputStopsSearch ==
    [][((ClickFindRoute \/ PressEnter)
          /\ \E text \in {startLatInput, startLonInput, endLatInput, endLonInput} :
                ~WellFormedNumber(text))
        => /\ status' = Status("error", "bad_coordinates", 0)
           /\ UNCHANGED <<pending, clickMode, btnDisabled, overlayVars,
                          infoPanel>>]_vars

\* C11: the clear action changes neither clickMode nor any of the four
\* coordinate inputs, so the click after a clear populates the endpoint the
\* count of clicks so far calls for, as it would without the clear.
C11_ClearKeepsSelection ==
    [][clearAll =>
          /\ UNCHANGED <<clickMode, inputVars>>
          /\ clickMode' = IF clickParity' = 0 THEN "start" ELSE "end"]_vars

\* The map was cleared between the click for the start point and the click
\* for the end point.
C11_Witness ==
    /\ status.msg = "cleared"
    /\ clickMode = "end"
    /\ startLatInput # <<>>
    /\ endLatInput = <<>>

\* C12: immediately after the clear action no overlay is on the map, neither
\* a route line nor a start, end or temporary click marker; invoked with
\* nothing drawn, it changes no overlay.
C12_ClearRemovesEveryOverlay ==
    [][clearAll =>
          /\ mapLayers' = EmptyBag
          /\ Handles' = <<>>
          /\ mapLayers = EmptyBag => UNCHANGED overlayVars]_vars

\* C13: a step in which a request settles leaves the search button enabled,
\* and the button is disabled in every state with a request outstanding.
C13_TriggerDisabledWhileOutstanding ==
    /\ [][IsSettle => ~btnDisabled']_vars
    /\ [](pending # <<>> => btnDisabled)

\* The draw call findRoute makes for the answer throws, the map being m.
DrawThrows(m, req, data) ==
    LET startC == <<req.lat1, req.lon1>>
        endC   == <<req.lat2, req.lon2>>
    IN  IF req.algorithm = "dfs"
          THEN /\ ~NoPaths(data)
               /\ IF IsMultiPath(data)
                    THEN drawMultiplePaths(m, data.all_paths_data[1],
                                           startC, endC).threw
                    ELSE drawRoute(m, data.paths[1][1], startC, endC).threw
          ELSE /\ ~NoPath(data)
               /\ drawRoute(m, data.path[1], startC, endC).threw

\* A request fails after it was issued: the transport or the status fails
\* it, the body is not JSON or is null, or drawing the answer throws.
RequestFails(m, req, r) ==
    \/ r.kind # "json"
    \/ r.body = <<>>
    \/ DrawThrows(m, req, r.body[1])

\* The map with nothing drawn.
EmptyMap ==
    [layers |-> EmptyBag, routeLayer |-> <<>>, allRouteLayers |-> <<>>,
     startMarker |-> <<>>, endMarker |-> <<>>]

\* The responses that fail a request of the algorithm.  Whether a draw
\* throws depends on the answer alone, not on the map nor on the points of
\* the request (C14_FailureIsOfResponse), so the empty map decides it.
FailingResponses(algorithm) ==
    {r \in Responses : RequestFails(EmptyMap, Request(algorithm, 0, 0, 0, 0), r)}

FailingDfs == FailingResponses("dfs")
FailingBfs == FailingResponses("bfs")
FailingDijkstra == FailingResponses("dijkstra")

FailingFor(req) ==
    CASE req.algorithm = "dfs" -> FailingDfs
      [] req.algorithm = "bfs" -> FailingBfs
      [] OTHER -> FailingDijkstra

C14_FailureIsOfResponse ==
    \A i \in 1..Len(pending) : \A r \in Responses :
        RequestFails(MapState, pending[i], r) <=> r \in FailingFor(pending[i])

\* C14: every failure after a request was issued is caught by findRoute's
\* catch block, which reports it with an 'error' status; findRoute then runs
\* to its end and re-enables the button.  That is, a settling step either
\* ends that way or handles no failing response.
C14_FailuresCaught ==
    [][IsSettle =>
          \/ /\ status' = Status("error", "caught", 0)
             /\ ~btnDisabled'
          \/ \A i \in 1..Len(pending) : \A r \in FailingFor(pending[i]) :
                ~Settle(i, r)]_vars

\* A failure while drawing was caught: the empty line of a dfs answer whose
\* first path has no node is on the map, and fitBounds threw.
C14_Witness ==
    /\ status = Status("error", "caught", 0)
    /\ ~btnDisabled
    /\ routeLayer = <<Line(<<>>, 5, 7)>>
    /\ startMarker # <<>>

\* The path the answer makes findRoute hand to drawRoute; <<>> when it hands
\* none.
PathToRender(req, data) ==
    IF req.algorithm = "dfs"
      THEN IF NoPaths(data) \/ IsMultiPath(data) THEN <<>> ELSE data.paths[1][1]
      ELSE IF NoPath(data) THEN <<>> ELSE data.path[1]

\* Number of nodes of the path rendered, the best one of a multi-path answer.
RenderedNodes(req, data) ==
    IF req.algorithm = "dfs" /\ IsMultiPath(data)
      THEN Len(data.all_paths_data[1][1].coordinates[1])
      ELSE Len(PathToRender(req, data))

\* The length in kilometres the answer reports for the rendered path: its
\* distance_km, or the one of the best path's record; UNDEF when it reports
\* none.
ReportedKm(req, data) ==
    IF data.distance_km # UNDEF THEN data.distance_km
    ELSE IF req.algorithm = "dfs" /\ IsMultiPath(data)
      THEN data.all_paths_data[1][1].distance_km
    ELSE UNDEF

\* C15: after every successful render the results summary is visible and
\* populated: the distance shown is distance_km when the answer reports
\* kilometres and distance / 1000 when it reports metres, the node count is
\* that of the rendered (best) path, and the algorithm name is the display
\* name of the requested algorithm.
C15_SummaryAfterRender ==
    [][(IsSettle /\ status'.type = "success") =>
          \A i \in 1..Len(pending) : \A r \in Responses :
              Settle(i, r) =>
                LET req  == pending[i]
                    data == r.body[1]
                    km   == ReportedKm(req, data)
                IN  /\ infoPanel'.show
                    /\ infoPanel'.distance # UNDEF
                    /\ km # UNDEF => infoPanel'.distance = toFixed2(km)
                    /\ (km = UNDEF /\ data.distance # UNDEF)
                          => infoPanel'.distance = toFixed2(data.distance)
                    /\ infoPanel'.nodes = RenderedNodes(req, data)
                    /\ req.algorithm = "dijkstra" => infoPanel'.algo = "Dijkstra"
                    /\ req.algorithm = "bfs" => infoPanel'.algo = "BFS"
                    /\ req.algorithm = "dfs" => infoPanel'.algo = "DFS"]_vars

\* A node identifier of the form "<lat>_<lon>": a string with exactly one
\* separator and a number on each side.
WellFormedNode(node) ==
    /\ node.t = "string"
    /\ Len(Split(node.s)) = 2
    /\ \A k \in 1..2 : WellFormedNumber(Split(node.s)[k])

\* C16: when the path handed to drawRoute holds a node identifier that is not
\* of the form "<lat>_<lon>", the request ends with an error status and no
\* route line drawn from that path is on the map.
C16_MalformedNodeFails ==
    [][IsSettle =>
          \A i \in 1..Len(pending) : \A r \in Responses :
              (/\ r.kind = "json"
               /\ r.body # <<>>
               /\ \E k \in 1..Len(PathToRender(pending[i], r.body[1])) :
                     ~WellFormedNode(PathToRender(pending[i], r.body[1])[k])
               /\ Settle(i, r))
                => /\ status'.type = "error"
                   /\ routeLayer' = <<>>]_vars

\* C17: no route request is issued before the startup health check has
\* resolved healthy.
C17_NoRequestBeforeHealthy ==
    [][IsRequest => initPc \in {"stats", "done"}]_vars

\* C18: renders happen in the order the requests were issued: a response
\* that renders belongs to the oldest outstanding request, so the render of
\* a later request is never replaced by the response to an earlier one.
C18_RendersInIssueOrder ==
    [][(IsSettle /\ status'.type = "success") =>
          \E r \in Responses : Settle(1, r)]_vars

\* The outstanding requests without the i-th.
Without(i) == SubSeq(pending, 1, i - 1) \o SubSeq(pending, i + 1, Len(pending))

\* C19: a request carries the coordinates read from the inputs when it was
\* triggered, and the start and end markers drawn for its response are
\* placed at those coordinates, whatever the inputs hold by then.
C19_PointsFixedAtTrigger ==
    /\ [][IsRequest =>
            LET req == pending'[Len(pending')]
            IN  /\ StartOf(req) = <<parseFloat(startLatInput),
                                    parseFloat(startLonInput)>>
                /\ EndOf(req) = <<parseFloat(endLatInput),
                                  parseFloat(endLonInput)>>]_vars
    /\ [][(IsSettle /\ status'.type = "success") =>
            \E i \in 1..Len(pending) :
                /\ pending' = Without(i)
                /\ startMarker' = <<Marker("start", StartOf(pending[i]))>>
                /\ endMarker' = <<Marker("end", EndOf(pending[i]))>>]_vars

\* A route was rendered after a click had changed the start inputs while its
\* request was outstanding: the start marker is not where the inputs say.
C19_Witness ==
    /\ status.type = "success"
    /\ pending = <<>>
    /\ startMarker # <<>>
    /\ startMarker[1].latlngs[1] #
          <<parseFloat(startLatInput), parseFloat(startLonInput)>>

\* C20: whenever the results summary is visible, at least one route line is
\* on the map.
C20_SummaryImpliesRoute ==
    infoPanel.show => OnMap(mapLayers, {"line"}) > 0

=============================================================================
